---- MODULE Spec2Model ----
(***************************************************************************)
(* Reward ledger and cooldown state machine of the CCC miner / faucet bot. *)
(*                                                                         *)
(* faucet.py: last-timestamp model.  Table ccc_mining (mining balance and  *)
(* last_mine_timestamp per telegram user) and table faucet_claims (linked  *)
(* hedera account and last_claim_timestamp per telegram user).             *)
(* app.py: session model.  Table users (username, hedera account, tokens)  *)
(* and table mining_sessions (open sessions).                              *)
(*                                                                         *)
(* Time: time.time() is a float number of seconds.  The clock of the model *)
(* counts ticks, Res ticks to the second, so that sub-second readings and  *)
(* the truncation int(...) of the code are represented.  Timestamps stored *)
(* in the tables are tick counts as well.                                  *)
(***************************************************************************)
EXTENDS Integers, Sequences, FiniteSets, TLC

\* ------------------------------------------------------------- bounds
\* ticks per second of the model clock
Res == 2
\* the clock runs over MaxWindows + 1 cooldown windows
MaxWindows == 2
\* telegram users 1..NumUsers
NumUsers == 2
\* requests that can be in flight at the same time
NumProcs == 2
\* requests received in one run of the interleaved specifications
MaxRequests == 3
\* requests received in one run of app.py
MaxAppRequests == 4
\* requests received in one run of app.py with the senders of the messages
MaxFromRequests == 3
\* requests received in one run of the specification of one user's requests
MaxSeqRequests == 3
\* The requests received in a run of both programs with their steps interleaved.
MaxAllRequests == 2

\* ---------------------------------------------------------- constants
\* faucet.py
CCC_AMOUNT == 1
COOLDOWN_MINUTES == 100
COOLDOWN_SECONDS == COOLDOWN_MINUTES * 60
reward == 1
\* app.py
MINING_DURATION_SECONDS == 100 * 60
CCC_PER_SESSION == 1

Users == 1..NumUsers
Procs == 1..NumProcs

\* ---------------------------------------------------------------- clock
\* Offsets of the clock readings inside one cooldown window: the start,
\* half a second later, 100 seconds later, one tick before the end.
Offsets == {0, 1, 100 * Res, COOLDOWN_SECONDS * Res - 1}

\* The readings time.time() can return in a run of the model.
TimeGrid ==
    {w * COOLDOWN_SECONDS * Res + o : w \in 0..MaxWindows, o \in Offsets}

\* The readings at the edges of the cooldown windows only: the clock of the
\* interleaved specifications.
EdgeGrid ==
    {t \in TimeGrid :
        t % (COOLDOWN_SECONDS * Res) \in {0, COOLDOWN_SECONDS * Res - 1}}

\* The readings time.time() can return later in a call that took the reading
\* t: the same, or the next tick.
ClockDuring(t) == {t2 \in TimeGrid : t2 = t \/ t2 = t + 1}

\* Variant of IntTrunc: rounding away from zero.
IntCeil(n, d) ==
    IF n >= 0 THEN (n + d - 1) \div d ELSE -((-n + d - 1) \div d)

\* int(x) of a quotient n / d of tick counts, d > 0: truncation towards 0.
IntTrunc(n, d) == IF n >= 0 THEN n \div d ELSE -((-n) \div d)

VARIABLES
    now,            \* the reading of time.time(), in ticks
    ccc_mining,     \* faucet.py table ccc_mining: telegram_user_id -> row
    proc,           \* the requests in flight: position and local variables
    started,        \* the number of requests received (interleaved runs)
    last,           \* observation: the last completed call and its result
    mined,          \* observation: per user, the successful process_mining calls
    faucet_claims,  \* faucet.py table faucet_claims: telegram_user_id -> row
    transfers,      \* observation: per user, the time of the last transfer that
                    \* reported success, and whether two were too close
    users,          \* app.py table users: the rows in id order (id = index)
    mining_sessions \* app.py table mining_sessions: the rows in rowid order

faucetVars == <<faucet_claims, transfers>>
appVars == <<users, mining_sessions>>
vars == <<now, ccc_mining, proc, started, last, mined, faucetVars, appVars>>

\* ------------------------------------------------- faucet.py: mining
\* The row get_mining_status inserts for a user it does not know.
NewMiningRow == [last_mine_timestamp |-> 0, ccc_balance |-> 0]

\* Variant of PutRow: the statement without its WHERE / key, every row
\* written.
PutRowAll(tbl, u, row) == [x \in DOMAIN tbl \cup {u} |-> row]

\* INSERT [OR REPLACE] INTO ccc_mining: the row of user u becomes row.
PutRow(tbl, u, row) ==
    [x \in DOMAIN tbl \cup {u} |-> IF x = u THEN row ELSE tbl[x]]

\* Variant of CooldownOver: the boundary excluded.
CooldownOverStrict(elapsed) == elapsed > COOLDOWN_SECONDS * Res

\* The cooldown test of get_mining_status on an elapsed time in ticks.
CooldownOver(elapsed) == elapsed >= COOLDOWN_SECONDS * Res

\* The status dictionary of get_mining_status for a stored row read at time t.
StatusOfRow(row, t) ==
    LET time_since_last_mine == t - row.last_mine_timestamp
    IN  IF CooldownOver(time_since_last_mine)
        THEN [can_mine |-> TRUE, time_remaining |-> 0,
              balance |-> row.ccc_balance, is_mining |-> FALSE,
              cooldown_duration |-> COOLDOWN_SECONDS, error |-> FALSE]
        ELSE [can_mine |-> FALSE,
              time_remaining |->
                  IntTrunc(COOLDOWN_SECONDS * Res - time_since_last_mine, Res),
              balance |-> row.ccc_balance, is_mining |-> TRUE,
              cooldown_duration |-> COOLDOWN_SECONDS, error |-> FALSE]

\* The status dictionary for a user without a row (after the row is inserted).
StatusNewUser ==
    [can_mine |-> TRUE, time_remaining |-> 0, balance |-> 0,
     is_mining |-> FALSE, cooldown_duration |-> COOLDOWN_SECONDS,
     error |-> FALSE]

\* The status dictionary of the except sqlite3.Error branch.
StatusError ==
    [can_mine |-> FALSE, time_remaining |-> 0, balance |-> 0,
     is_mining |-> FALSE, cooldown_duration |-> COOLDOWN_SECONDS,
     error |-> TRUE]

\* Variant of GetMiningStatus: a status read that finds the cooldown over
\* collects the reward itself.
GetMiningStatusCollecting(tbl, u, t, fail) ==
    IF fail
    THEN [db |-> tbl, res |-> StatusError]
    ELSE IF u \notin DOMAIN tbl
         THEN [db |-> PutRow(tbl, u, NewMiningRow), res |-> StatusNewUser]
         ELSE [db |-> IF StatusOfRow(tbl[u], t).can_mine
                      THEN PutRow(tbl, u,
                               [last_mine_timestamp |-> t,
                                ccc_balance |-> tbl[u].ccc_balance + reward])
                      ELSE tbl,
               res |-> StatusOfRow(tbl[u], t)]

\* get_mining_status(u) run as a whole at time t on table tbl; fail: the
\* store raises sqlite3.Error inside the call (nothing is committed then).
GetMiningStatus(tbl, u, t, fail) ==
    IF fail
    THEN [db |-> tbl, res |-> StatusError]
    ELSE IF u \notin DOMAIN tbl
         THEN [db |-> PutRow(tbl, u, NewMiningRow), res |-> StatusNewUser]
         ELSE [db |-> tbl, res |-> StatusOfRow(tbl[u], t)]

\* The result of process_mining when the status says the user cannot mine.
MineRefused(status) ==
    [success |-> FALSE, message |-> "wait",
     wait_minutes |-> status.time_remaining \div 60,
     balance |-> status.balance, time_remaining |-> status.time_remaining,
     can_mine |-> FALSE, cooldown_duration |-> COOLDOWN_SECONDS,
     error |-> FALSE]

\* The result of process_mining after the record was written.
MineGranted(new_balance) ==
    [success |-> TRUE, message |-> "mined", wait_minutes |-> 0,
     balance |-> new_balance, time_remaining |-> COOLDOWN_SECONDS,
     can_mine |-> FALSE, cooldown_duration |-> COOLDOWN_SECONDS,
     error |-> FALSE]

\* The result of the except sqlite3.Error branch of process_mining.
MineDbError ==
    [success |-> FALSE, message |-> "dberror", wait_minutes |-> 0,
     balance |-> 0, time_remaining |-> 0,
     can_mine |-> FALSE, cooldown_duration |-> COOLDOWN_SECONDS,
     error |-> TRUE]

\* Variant of MinedRow: the reward replaces the balance instead of adding to it.
MinedRowReset(current_time, status) ==
    [last_mine_timestamp |-> current_time, ccc_balance |-> reward]

\* The record process_mining writes: timestamp current_time, balance + reward.
MinedRow(current_time, status) ==
    [last_mine_timestamp |-> current_time,
     ccc_balance |-> status.balance + reward]

\* process_mining(u) run as a whole on table tbl: current_time is its own
\* reading of the clock (line 214), the timestamp it stores; t is the later
\* reading of get_mining_status (line 148), which decides.  fail names where
\* the store raises sqlite3.Error: "none", "connect" (line 212), "status"
\* (inside get_mining_status) or "write" (the INSERT OR REPLACE / commit).
ProcessMining(tbl, u, current_time, t, fail) ==
    IF fail = "connect"
    THEN [db |-> tbl, res |-> MineDbError]
    ELSE LET st == GetMiningStatus(tbl, u, t, fail = "status")
         IN  IF ~st.res.can_mine
             THEN [db |-> st.db, res |-> MineRefused(st.res)]
             ELSE IF fail = "write"
                  THEN [db |-> st.db, res |-> MineDbError]
                  ELSE [db |-> PutRow(st.db, u, MinedRow(current_time, st.res)),
                        res |-> MineGranted(st.res.balance + reward)]

\* ------------------------------------------------------------ actions
NoCall == [op |-> "none", hits |-> {}]

\* A request slot with no request in it.
IdleProc ==
    [pc |-> "idle", kind |-> "none", user |-> 0, current_time |-> 0,
     fresh |-> FALSE, status |-> StatusError, res |-> NoCall,
     account |-> <<>>, action_type |-> "none", pending |-> FALSE,
     username |-> <<>>]

\* The observation kept of user u's successful process_mining calls.
NoteMined(u, t, res) ==
    IF res.success
    THEN [mined EXCEPT ![u] = [count |-> @.count + 1, at |-> t]]
    ELSE mined

Init ==
    /\ now = 0
    /\ ccc_mining = [x \in {} |-> NewMiningRow]
    /\ proc = [p \in Procs |-> IdleProc]
    /\ started = 0
    /\ last = NoCall
    /\ mined = [u \in Users |-> [count |-> 0, at |-> -1]]
    /\ faucet_claims = [x \in {} |-> 0]
    /\ transfers = [u \in Users |-> [at |-> -1, close |-> FALSE]]
    /\ users = <<>>
    /\ mining_sessions = <<>>

\* time.time() advances to a later reading.
Tick ==
    /\ \E t \in TimeGrid : t > now /\ now' = t
    /\ UNCHANGED <<faucetVars, appVars, ccc_mining, proc, started, last, mined>>

\* time.time() advances to a later reading at the edge of a cooldown window.
TickEdge ==
    /\ \E t \in EdgeGrid : t > now /\ now' = t
    /\ UNCHANGED <<faucetVars, appVars, ccc_mining, proc, started, last, mined>>

\* Whether a status read for user u at the reading t finds the stored
\* last_mine_timestamp exactly COOLDOWN_SECONDS back.
MiningAtBoundary(u, t) ==
    /\ u \in DOMAIN ccc_mining
    /\ t - ccc_mining[u].last_mine_timestamp = COOLDOWN_SECONDS * Res

\* web_app_data, action "get_mining_status", run as a whole.
DoGetMiningStatus(u) ==
    LET r == GetMiningStatus(ccc_mining, u, now, FALSE)
    IN  /\ ccc_mining' = r.db
        /\ last' = [op |-> "get_mining_status", user |-> u, time |-> now,
                    read |-> now,
                    res |-> r.res, before |-> ccc_mining, after |-> r.db,
                    prev |-> mined[u],
                    hits |-> last.hits \cup
                        IF MiningAtBoundary(u, now) THEN {"status"} ELSE {}]
        /\ UNCHANGED <<faucetVars, appVars, now, proc, mined>>

\* web_app_data, action "mine_ccc", run as a whole: process_mining reads the
\* clock (now), get_mining_status reads it again (t).
DoProcessMining(u) ==
    \E t \in ClockDuring(now) :
        LET r == ProcessMining(ccc_mining, u, now, t, "none")
        IN  /\ now' = t
            /\ ccc_mining' = r.db
            /\ last' = [op |-> "process_mining", user |-> u, time |-> now,
                        read |-> t,
                        res |-> r.res, before |-> ccc_mining, after |-> r.db,
                        prev |-> mined[u],
                        hits |-> last.hits \cup
                            IF MiningAtBoundary(u, now) THEN {"mine"} ELSE {}]
            /\ mined' = NoteMined(u, now, r.res)
            /\ UNCHANGED <<faucetVars, appVars, proc>>

NextMine ==
    \/ Tick
    \/ \E u \in Users : DoGetMiningStatus(u) /\ UNCHANGED started
    \/ \E u \in Users : DoProcessMining(u) /\ UNCHANGED started

\* faucet.py mining, requests handled one at a time.
SpecMine == Init /\ [][NextMine]_vars

\* ------------------------------ faucet.py mining, the store failing
\* Where the store raises sqlite3.Error during process_mining.
MineFails == {"none", "connect", "status", "write"}

\* Whether the statement named by fail is executed by process_mining(u) on
\* table tbl, its status read at time t, so that it can raise.
FailureReached(tbl, u, t, fail) ==
    fail = "write" => GetMiningStatus(tbl, u, t, FALSE).res.can_mine

\* Whether process_mining(u) on table tbl takes both readings of the clock:
\* a store that raises at the connect of process_mining, or at the connect or
\* the SELECT of get_mining_status, ends it before the second; the INSERT
\* for a user without a row (line 152) raises after it.
BothReadings(tbl, u, fail) ==
    \/ fail \in {"none", "write"}
    \/ fail = "status" /\ u \notin DOMAIN tbl

\* web_app_data, action "get_mining_status", the store raising or not.
DoGetMiningStatusStore(u, fail) ==
    LET r == GetMiningStatus(ccc_mining, u, now, fail = "status")
    IN  /\ ccc_mining' = r.db
        /\ last' = [op |-> "get_mining_status", user |-> u, time |-> now,
                    read |-> now,
                    res |-> r.res, before |-> ccc_mining, after |-> r.db,
                    prev |-> mined[u], fail |-> fail, hits |-> {}]
        /\ UNCHANGED <<faucetVars, appVars, now, proc, started, mined>>

\* web_app_data, action "mine_ccc", the store raising at fail.
DoProcessMiningStore(u, fail) ==
    \E t \in ClockDuring(now) :
        LET r == ProcessMining(ccc_mining, u, now, t, fail)
        IN  /\ t # now => BothReadings(ccc_mining, u, fail)
            /\ FailureReached(ccc_mining, u, t, fail)
            /\ now' = t
            /\ ccc_mining' = r.db
            /\ last' = [op |-> "process_mining", user |-> u, time |-> now,
                        read |-> t,
                        res |-> r.res, before |-> ccc_mining, after |-> r.db,
                        prev |-> mined[u], fail |-> fail, hits |-> {}]
            /\ mined' = NoteMined(u, now, r.res)
            /\ UNCHANGED <<faucetVars, appVars, proc, started>>

NextMineErr ==
    \/ Tick
    \/ \E u \in Users, fail \in {"none", "status"} :
           DoGetMiningStatusStore(u, fail)
    \/ \E u \in Users, fail \in MineFails : DoProcessMiningStore(u, fail)

\* faucet.py mining, requests handled one at a time, the store failing or not.
SpecMineErr == Init /\ [][NextMineErr]_vars

\* -------------------------------- faucet.py mining, requests interleaved
\* Each statement executed on the store (with its commit) is one step; the
\* clock may advance between the steps of a request.

\* web_app_data receives "mine_ccc": process_mining connects and reads
\* current_time (lines 212-214).
MineBegin(p, u) ==
    /\ proc[p].pc = "idle"
    /\ started < MaxRequests
    /\ started' = started + 1
    /\ proc' = [proc EXCEPT ![p] =
                    [IdleProc EXCEPT !.pc = "select", !.kind = "mine",
                                     !.user = u, !.current_time = now,
                                     !.fresh = (u \notin DOMAIN ccc_mining)]]
    /\ UNCHANGED <<faucetVars, appVars, now, ccc_mining, last, mined>>

\* web_app_data receives "get_mining_status".
StatusBegin(p, u) ==
    /\ proc[p].pc = "idle"
    /\ started < MaxRequests
    /\ started' = started + 1
    /\ proc' = [proc EXCEPT ![p] =
                    [IdleProc EXCEPT !.pc = "select", !.kind = "status",
                                     !.user = u,
                                     !.fresh = (u \notin DOMAIN ccc_mining)]]
    /\ UNCHANGED <<faucetVars, appVars, now, ccc_mining, last, mined>>

\* The slot of request p once get_mining_status has returned status: a status
\* request replies; process_mining refuses or goes on to write the record.
AfterStatus(q, status) ==
    IF q.kind = "status"
    THEN [q EXCEPT !.pc = "reply", !.res = status]
    ELSE IF ~status.can_mine
         THEN [q EXCEPT !.pc = "reply", !.res = MineRefused(status)]
         ELSE [q EXCEPT !.pc = "write", !.status = status]

\* get_mining_status: the SELECT and the reading of current_time.
StatusSelect(p) ==
    /\ proc[p].pc = "select"
    /\ proc' = [proc EXCEPT ![p] =
                    IF proc[p].user \notin DOMAIN ccc_mining
                    THEN [proc[p] EXCEPT !.pc = "insert"]
                    ELSE AfterStatus(proc[p],
                             StatusOfRow(ccc_mining[proc[p].user], now))]
    /\ UNCHANGED <<faucetVars, appVars, now, ccc_mining, started, last, mined>>

\* get_mining_status: the INSERT of the row of a new user and its commit; the
\* primary key refuses it (sqlite3.IntegrityError) when the row exists by now.
StatusInsert(p) ==
    /\ proc[p].pc = "insert"
    /\ IF proc[p].user \notin DOMAIN ccc_mining
       THEN /\ ccc_mining' = PutRow(ccc_mining, proc[p].user, NewMiningRow)
            /\ proc' = [proc EXCEPT ![p] = AfterStatus(proc[p], StatusNewUser)]
       ELSE /\ ccc_mining' = ccc_mining
            /\ proc' = [proc EXCEPT ![p] = AfterStatus(proc[p], StatusError)]
    /\ UNCHANGED <<faucetVars, appVars, now, started, last, mined>>

\* process_mining: INSERT OR REPLACE of the record and its commit.
MineWrite(p) ==
    /\ proc[p].pc = "write"
    /\ ccc_mining' = PutRow(ccc_mining, proc[p].user,
                            MinedRow(proc[p].current_time, proc[p].status))
    /\ proc' = [proc EXCEPT ![p] =
                    [proc[p] EXCEPT
                        !.pc = "reply", !.status = StatusError,
                        !.res = MineGranted(proc[p].status.balance + reward)]]
    /\ UNCHANGED <<faucetVars, appVars, now, started, last, mined>>

\* web_app_data sends the result back (reply_text) and ends.
Reply(p) ==
    /\ proc[p].pc = "reply"
    /\ proc' = [proc EXCEPT ![p] = IdleProc]
    /\ UNCHANGED <<faucetVars, appVars, now, ccc_mining, started, last, mined>>

NextMineConc ==
    \/ TickEdge
    \/ \E p \in Procs, u \in Users : MineBegin(p, u)
    \/ \E p \in Procs, u \in Users : StatusBegin(p, u)
    \/ \E p \in Procs : StatusSelect(p)
    \/ \E p \in Procs : StatusInsert(p)
    \/ \E p \in Procs : MineWrite(p)
    \/ \E p \in Procs : Reply(p)

\* faucet.py mining, the statements of concurrent requests interleaved.
SpecMineConc == Init /\ [][NextMineConc]_vars

\* ------------------------------------------ faucet.py: the token faucet
\* A text message is the sequence of its characters; a character that has no
\* printable ASCII form or escape is written by its code point, "U+00B2".
\* The characters str.strip() removes (those str.isspace() is true of).
White == {
    "\t", "\n", "U+000B", "\f", "\r", "U+001C", "U+001D", "U+001E", "U+001F",
    " ", "U+0085", "U+00A0", "U+1680", "U+2000", "U+2001", "U+2002",
    "U+2003", "U+2004", "U+2005", "U+2006", "U+2007", "U+2008", "U+2009",
    "U+200A", "U+2028", "U+2029", "U+202F", "U+205F", "U+3000" }

\* The characters str.isdigit() is true of.
Digits == {
    "0", "1", "2", "3", "4", "5", "6", "7", "8", "9", "U+00B2", "U+00B3",
    "U+00B9", "U+0660", "U+0661", "U+0662", "U+0663", "U+0664", "U+0665",
    "U+0666", "U+0667", "U+0668", "U+0669", "U+06F0", "U+06F1", "U+06F2",
    "U+06F3", "U+06F4", "U+06F5", "U+06F6", "U+06F7", "U+06F8", "U+06F9",
    "U+07C0", "U+07C1", "U+07C2", "U+07C3", "U+07C4", "U+07C5", "U+07C6",
    "U+07C7", "U+07C8", "U+07C9", "U+0966", "U+0967", "U+0968", "U+0969",
    "U+096A", "U+096B", "U+096C", "U+096D", "U+096E", "U+096F", "U+09E6",
    "U+09E7", "U+09E8", "U+09E9", "U+09EA", "U+09EB", "U+09EC", "U+09ED",
    "U+09EE", "U+09EF", "U+0A66", "U+0A67", "U+0A68", "U+0A69", "U+0A6A",
    "U+0A6B", "U+0A6C", "U+0A6D", "U+0A6E", "U+0A6F", "U+0AE6", "U+0AE7",
    "U+0AE8", "U+0AE9", "U+0AEA", "U+0AEB", "U+0AEC", "U+0AED", "U+0AEE",
    "U+0AEF", "U+0B66", "U+0B67", "U+0B68", "U+0B69", "U+0B6A", "U+0B6B",
    "U+0B6C", "U+0B6D", "U+0B6E", "U+0B6F", "U+0BE6", "U+0BE7", "U+0BE8",
    "U+0BE9", "U+0BEA", "U+0BEB", "U+0BEC", "U+0BED", "U+0BEE", "U+0BEF",
    "U+0C66", "U+0C67", "U+0C68", "U+0C69", "U+0C6A", "U+0C6B", "U+0C6C",
    "U+0C6D", "U+0C6E", "U+0C6F", "U+0CE6", "U+0CE7", "U+0CE8", "U+0CE9",
    "U+0CEA", "U+0CEB", "U+0CEC", "U+0CED", "U+0CEE", "U+0CEF", "U+0D66",
    "U+0D67", "U+0D68", "U+0D69", "U+0D6A", "U+0D6B", "U+0D6C", "U+0D6D",
    "U+0D6E", "U+0D6F", "U+0DE6", "U+0DE7", "U+0DE8", "U+0DE9", "U+0DEA",
    "U+0DEB", "U+0DEC", "U+0DED", "U+0DEE", "U+0DEF", "U+0E50", "U+0E51",
    "U+0E52", "U+0E53", "U+0E54", "U+0E55", "U+0E56", "U+0E57", "U+0E58",
    "U+0E59", "U+0ED0", "U+0ED1", "U+0ED2", "U+0ED3", "U+0ED4", "U+0ED5",
    "U+0ED6", "U+0ED7", "U+0ED8", "U+0ED9", "U+0F20", "U+0F21", "U+0F22",
    "U+0F23", "U+0F24", "U+0F25", "U+0F26", "U+0F27", "U+0F28", "U+0F29",
    "U+1040", "U+1041", "U+1042", "U+1043", "U+1044", "U+1045", "U+1046",
    "U+1047", "U+1048", "U+1049", "U+1090", "U+1091", "U+1092", "U+1093",
    "U+1094", "U+1095", "U+1096", "U+1097", "U+1098", "U+1099", "U+1369",
    "U+136A", "U+136B", "U+136C", "U+136D", "U+136E", "U+136F", "U+1370",
    "U+1371", "U+17E0", "U+17E1", "U+17E2", "U+17E3", "U+17E4", "U+17E5",
    "U+17E6", "U+17E7", "U+17E8", "U+17E9", "U+1810", "U+1811", "U+1812",
    "U+1813", "U+1814", "U+1815", "U+1816", "U+1817", "U+1818", "U+1819",
    "U+1946", "U+1947", "U+1948", "U+1949", "U+194A", "U+194B", "U+194C",
    "U+194D", "U+194E", "U+194F", "U+19D0", "U+19D1", "U+19D2", "U+19D3",
    "U+19D4", "U+19D5", "U+19D6", "U+19D7", "U+19D8", "U+19D9", "U+19DA",
    "U+1A80", "U+1A81", "U+1A82", "U+1A83", "U+1A84", "U+1A85", "U+1A86",
    "U+1A87", "U+1A88", "U+1A89", "U+1A90", "U+1A91", "U+1A92", "U+1A93",
    "U+1A94", "U+1A95", "U+1A96", "U+1A97", "U+1A98", "U+1A99", "U+1B50",
    "U+1B51", "U+1B52", "U+1B53", "U+1B54", "U+1B55", "U+1B56", "U+1B57",
    "U+1B58", "U+1B59", "U+1BB0", "U+1BB1", "U+1BB2", "U+1BB3", "U+1BB4",
    "U+1BB5", "U+1BB6", "U+1BB7", "U+1BB8", "U+1BB9", "U+1C40", "U+1C41",
    "U+1C42", "U+1C43", "U+1C44", "U+1C45", "U+1C46", "U+1C47", "U+1C48",
    "U+1C49", "U+1C50", "U+1C51", "U+1C52", "U+1C53", "U+1C54", "U+1C55",
    "U+1C56", "U+1C57", "U+1C58", "U+1C59", "U+2070", "U+2074", "U+2075",
    "U+2076", "U+2077", "U+2078", "U+2079", "U+2080", "U+2081", "U+2082",
    "U+2083", "U+2084", "U+2085", "U+2086", "U+2087", "U+2088", "U+2089",
    "U+2460", "U+2461", "U+2462", "U+2463", "U+2464", "U+2465", "U+2466",
    "U+2467", "U+2468", "U+2474", "U+2475", "U+2476", "U+2477", "U+2478",
    "U+2479", "U+247A", "U+247B", "U+247C", "U+2488", "U+2489", "U+248A",
    "U+248B", "U+248C", "U+248D", "U+248E", "U+248F", "U+2490", "U+24EA",
    "U+24F5", "U+24F6", "U+24F7", "U+24F8", "U+24F9", "U+24FA", "U+24FB",
    "U+24FC", "U+24FD", "U+24FF", "U+2776", "U+2777", "U+2778", "U+2779",
    "U+277A", "U+277B", "U+277C", "U+277D", "U+277E", "U+2780", "U+2781",
    "U+2782", "U+2783", "U+2784", "U+2785", "U+2786", "U+2787", "U+2788",
    "U+278A", "U+278B", "U+278C", "U+278D", "U+278E", "U+278F", "U+2790",
    "U+2791", "U+2792", "U+A620", "U+A621", "U+A622", "U+A623", "U+A624",
    "U+A625", "U+A626", "U+A627", "U+A628", "U+A629", "U+A8D0", "U+A8D1",
    "U+A8D2", "U+A8D3", "U+A8D4", "U+A8D5", "U+A8D6", "U+A8D7", "U+A8D8",
    "U+A8D9", "U+A900", "U+A901", "U+A902", "U+A903", "U+A904", "U+A905",
    "U+A906", "U+A907", "U+A908", "U+A909", "U+A9D0", "U+A9D1", "U+A9D2",
    "U+A9D3", "U+A9D4", "U+A9D5", "U+A9D6", "U+A9D7", "U+A9D8", "U+A9D9",
    "U+A9F0", "U+A9F1", "U+A9F2", "U+A9F3", "U+A9F4", "U+A9F5", "U+A9F6",
    "U+A9F7", "U+A9F8", "U+A9F9", "U+AA50", "U+AA51", "U+AA52", "U+AA53",
    "U+AA54", "U+AA55", "U+AA56", "U+AA57", "U+AA58", "U+AA59", "U+ABF0",
    "U+ABF1", "U+ABF2", "U+ABF3", "U+ABF4", "U+ABF5", "U+ABF6", "U+ABF7",
    "U+ABF8", "U+ABF9", "U+FF10", "U+FF11", "U+FF12", "U+FF13", "U+FF14",
    "U+FF15", "U+FF16", "U+FF17", "U+FF18", "U+FF19", "U+104A0", "U+104A1",
    "U+104A2", "U+104A3", "U+104A4", "U+104A5", "U+104A6", "U+104A7",
    "U+104A8", "U+104A9", "U+10A40", "U+10A41", "U+10A42", "U+10A43",
    "U+10D30", "U+10D31", "U+10D32", "U+10D33", "U+10D34", "U+10D35",
    "U+10D36", "U+10D37", "U+10D38", "U+10D39", "U+10E60", "U+10E61",
    "U+10E62", "U+10E63", "U+10E64", "U+10E65", "U+10E66", "U+10E67",
    "U+10E68", "U+11052", "U+11053", "U+11054", "U+11055", "U+11056",
    "U+11057", "U+11058", "U+11059", "U+1105A", "U+11066", "U+11067",
    "U+11068", "U+11069", "U+1106A", "U+1106B", "U+1106C", "U+1106D",
    "U+1106E", "U+1106F", "U+110F0", "U+110F1", "U+110F2", "U+110F3",
    "U+110F4", "U+110F5", "U+110F6", "U+110F7", "U+110F8", "U+110F9",
    "U+11136", "U+11137", "U+11138", "U+11139", "U+1113A", "U+1113B",
    "U+1113C", "U+1113D", "U+1113E", "U+1113F", "U+111D0", "U+111D1",
    "U+111D2", "U+111D3", "U+111D4", "U+111D5", "U+111D6", "U+111D7",
    "U+111D8", "U+111D9", "U+112F0", "U+112F1", "U+112F2", "U+112F3",
    "U+112F4", "U+112F5", "U+112F6", "U+112F7", "U+112F8", "U+112F9",
    "U+11450", "U+11451", "U+11452", "U+11453", "U+11454", "U+11455",
    "U+11456", "U+11457", "U+11458", "U+11459", "U+114D0", "U+114D1",
    "U+114D2", "U+114D3", "U+114D4", "U+114D5", "U+114D6", "U+114D7",
    "U+114D8", "U+114D9", "U+11650", "U+11651", "U+11652", "U+11653",
    "U+11654", "U+11655", "U+11656", "U+11657", "U+11658", "U+11659",
    "U+116C0", "U+116C1", "U+116C2", "U+116C3", "U+116C4", "U+116C5",
    "U+116C6", "U+116C7", "U+116C8", "U+116C9", "U+11730", "U+11731",
    "U+11732", "U+11733", "U+11734", "U+11735", "U+11736", "U+11737",
    "U+11738", "U+11739", "U+118E0", "U+118E1", "U+118E2", "U+118E3",
    "U+118E4", "U+118E5", "U+118E6", "U+118E7", "U+118E8", "U+118E9",
    "U+11950", "U+11951", "U+11952", "U+11953", "U+11954", "U+11955",
    "U+11956", "U+11957", "U+11958", "U+11959", "U+11C50", "U+11C51",
    "U+11C52", "U+11C53", "U+11C54", "U+11C55", "U+11C56", "U+11C57",
    "U+11C58", "U+11C59", "U+11D50", "U+11D51", "U+11D52", "U+11D53",
    "U+11D54", "U+11D55", "U+11D56", "U+11D57", "U+11D58", "U+11D59",
    "U+11DA0", "U+11DA1", "U+11DA2", "U+11DA3", "U+11DA4", "U+11DA5",
    "U+11DA6", "U+11DA7", "U+11DA8", "U+11DA9", "U+16A60", "U+16A61",
    "U+16A62", "U+16A63", "U+16A64", "U+16A65", "U+16A66", "U+16A67",
    "U+16A68", "U+16A69", "U+16AC0", "U+16AC1", "U+16AC2", "U+16AC3",
    "U+16AC4", "U+16AC5", "U+16AC6", "U+16AC7", "U+16AC8", "U+16AC9",
    "U+16B50", "U+16B51", "U+16B52", "U+16B53", "U+16B54", "U+16B55",
    "U+16B56", "U+16B57", "U+16B58", "U+16B59", "U+1D7CE", "U+1D7CF",
    "U+1D7D0", "U+1D7D1", "U+1D7D2", "U+1D7D3", "U+1D7D4", "U+1D7D5",
    "U+1D7D6", "U+1D7D7", "U+1D7D8", "U+1D7D9", "U+1D7DA", "U+1D7DB",
    "U+1D7DC", "U+1D7DD", "U+1D7DE", "U+1D7DF", "U+1D7E0", "U+1D7E1",
    "U+1D7E2", "U+1D7E3", "U+1D7E4", "U+1D7E5", "U+1D7E6", "U+1D7E7",
    "U+1D7E8", "U+1D7E9", "U+1D7EA", "U+1D7EB", "U+1D7EC", "U+1D7ED",
    "U+1D7EE", "U+1D7EF", "U+1D7F0", "U+1D7F1", "U+1D7F2", "U+1D7F3",
    "U+1D7F4", "U+1D7F5", "U+1D7F6", "U+1D7F7", "U+1D7F8", "U+1D7F9",
    "U+1D7FA", "U+1D7FB", "U+1D7FC", "U+1D7FD", "U+1D7FE", "U+1D7FF",
    "U+1E140", "U+1E141", "U+1E142", "U+1E143", "U+1E144", "U+1E145",
    "U+1E146", "U+1E147", "U+1E148", "U+1E149", "U+1E2F0", "U+1E2F1",
    "U+1E2F2", "U+1E2F3", "U+1E2F4", "U+1E2F5", "U+1E2F6", "U+1E2F7",
    "U+1E2F8", "U+1E2F9", "U+1E950", "U+1E951", "U+1E952", "U+1E953",
    "U+1E954", "U+1E955", "U+1E956", "U+1E957", "U+1E958", "U+1E959",
    "U+1F100", "U+1F101", "U+1F102", "U+1F103", "U+1F104", "U+1F105",
    "U+1F106", "U+1F107", "U+1F108", "U+1F109", "U+1F10A", "U+1FBF0",
    "U+1FBF1", "U+1FBF2", "U+1FBF3", "U+1FBF4", "U+1FBF5", "U+1FBF6",
    "U+1FBF7", "U+1FBF8", "U+1FBF9" }

\* The text messages users send.
Texts ==
    { <<"0", ".", "0", ".", "7">>,
      <<"\r", " ", "0", ".", "0", ".", "7", "U+000B", "\n">>,
      <<"0", ".", "0", ".", "U+00B2">>,
      <<"0", ".", "0", ".">>,
      <<"0", ".", "0", ".", "x">> }

RECURSIVE StripLeft(_)
StripLeft(s) ==
    IF s = <<>> \/ Head(s) \notin White THEN s ELSE StripLeft(Tail(s))

RECURSIVE StripRight(_)
StripRight(s) ==
    IF s = <<>> \/ s[Len(s)] \notin White
    THEN s
    ELSE StripRight(SubSeq(s, 1, Len(s) - 1))

\* str.strip()
Strip(s) == StripRight(StripLeft(s))

\* str.startswith(pre)
StartsWith(s, pre) == Len(s) >= Len(pre) /\ SubSeq(s, 1, Len(pre)) = pre

\* str.isdigit()
IsDigit(s) == s # <<>> /\ \A i \in 1..Len(s) : s[i] \in Digits

\* The format test of send_hbar_to_account: 0.0.<digits>.
ValidAccountId(s) ==
    StartsWith(s, <<"0", ".", "0", ".">>) /\ IsDigit(SubSeq(s, 5, Len(s)))

\* get_user_data: the row of user u, <<row>>, or None, <<>>; None also when the
\* store raises sqlite3.Error (rfail).
GetUserData(tbl, u, rfail) ==
    IF rfail \/ u \notin DOMAIN tbl THEN <<>> ELSE <<tbl[u]>>

\* The cooldown test of send_hbar_to_account on an elapsed time in ticks.
ClaimInCooldown(time_elapsed) == time_elapsed < COOLDOWN_SECONDS * Res

\* What send_hbar_to_account decides before the transfer, for the message
\* text of user u received at time t.
ClaimCheck(tbl, u, text, t, rfail) ==
    LET user_input == Strip(text)
        user_data == GetUserData(tbl, u, rfail)
        base == [decision |-> "invalid", account |-> user_input,
                 action_type |-> "none", minutes |-> 0, seconds |-> 0]
    IN  IF ~ValidAccountId(user_input)
        THEN base
        ELSE IF user_data # <<>>
             THEN IF user_data[1].hedera_account_id # user_input
                  THEN [base EXCEPT !.decision = "different"]
                  ELSE LET time_elapsed == t - user_data[1].last_claim_timestamp
                           remaining == COOLDOWN_SECONDS * Res - time_elapsed
                       IN  IF ClaimInCooldown(time_elapsed)
                           THEN [base EXCEPT
                                    !.decision = "wait",
                                    !.minutes = remaining \div (60 * Res),
                                    !.seconds = (remaining % (60 * Res)) \div Res]
                           ELSE [base EXCEPT !.decision = "proceed",
                                             !.action_type = "update"]
             ELSE [base EXCEPT !.decision = "proceed", !.action_type = "add"]

\* add_user_claim: INSERT OR IGNORE; rowcount is 0 when the row exists.
AddUserClaim(tbl, u, account, timestamp, wfail) ==
    IF wfail \/ u \in DOMAIN tbl
    THEN [db |-> tbl, ok |-> FALSE]
    ELSE [db |-> PutRow(tbl, u, [hedera_account_id |-> account,
                                 last_claim_timestamp |-> timestamp]),
          ok |-> TRUE]

\* update_user_claim_timestamp: UPDATE; rowcount is 0 when no row exists.
UpdateUserClaimTimestamp(tbl, u, timestamp, wfail) ==
    IF wfail \/ u \notin DOMAIN tbl
    THEN [db |-> tbl, ok |-> FALSE]
    ELSE [db |-> [tbl EXCEPT ![u].last_claim_timestamp = timestamp],
          ok |-> TRUE]

\* Variant of TransferReportedSuccess: the return code is not looked at.
TransferReportedAnything(outcome) == outcome \in {"ok", "failed"}

\* The test process_result.returncode == 0 on the outcome of the transfer.
TransferReportedSuccess(outcome) == outcome = "ok"

\* What send_hbar_to_account does once subprocess.run ended with outcome
\* ("ok": return code 0, "failed": another return code, "raised": an
\* exception): the store written and the reply.
ClaimSettle(tbl, u, account, current_timestamp, action_type, outcome, wfail) ==
    IF outcome # "raised" /\ TransferReportedSuccess(outcome)
    THEN LET w == IF action_type = "add"
                  THEN AddUserClaim(tbl, u, account, current_timestamp, wfail)
                  ELSE UpdateUserClaimTimestamp(tbl, u, current_timestamp, wfail)
         IN  [db |-> w.db, res |-> [outcome |-> outcome, db_success |-> w.ok]]
    ELSE [db |-> tbl, res |-> [outcome |-> outcome, db_success |-> FALSE]]

\* The outcomes of subprocess.run that end the call.
Outcomes == {"ok", "failed", "raised"}

\* The observation kept of the transfers that reported success: close is set
\* once one of them follows the one before by less than COOLDOWN_SECONDS.
NoteTransfer(u, t, outcome) ==
    IF outcome = "ok"
    THEN [transfers EXCEPT ![u] =
             [at |-> t,
              close |-> @.close \/ (@.at >= 0 /\ t - @.at < COOLDOWN_SECONDS * Res)]]
    ELSE transfers

\* A text message arrives: send_hbar_to_account up to its first suspension
\* (await reply_text "Claiming Tokens ...", line 403), or to its end when the
\* request is refused.
ClaimBegin(p, u, text, rfail) ==
    LET c == ClaimCheck(faucet_claims, u, text, now, rfail)
    IN  /\ proc[p].pc = "idle"
        /\ started < MaxRequests
        /\ started' = started + 1
        /\ proc' = [proc EXCEPT ![p] =
               IF c.decision = "proceed"
               THEN [IdleProc EXCEPT !.pc = "transfer", !.kind = "claim",
                                     !.user = u, !.current_time = now,
                                     !.account = c.account,
                                     !.action_type = c.action_type]
               ELSE [IdleProc EXCEPT !.pc = "reply", !.kind = "claim",
                                     !.user = u,
                                     !.res = [outcome |-> c.decision,
                                              db_success |-> FALSE]]]
        /\ UNCHANGED <<now, ccc_mining, last, mined, faucetVars, appVars>>

\* subprocess.run ends and the handler runs on to its reply (lines 407-454).
ClaimTransfer(p, outcome, wfail) ==
    LET q == proc[p]
        r == ClaimSettle(faucet_claims, q.user, q.account, q.current_time,
                         q.action_type, outcome, wfail)
    IN  /\ q.pc = "transfer"
        /\ faucet_claims' = r.db
        /\ transfers' = NoteTransfer(q.user, now, outcome)
        /\ proc' = [proc EXCEPT ![p] =
               [IdleProc EXCEPT !.pc = "reply", !.kind = "claim",
                                !.user = q.user, !.account = q.account,
                                !.res = r.res]]
        /\ UNCHANGED <<now, ccc_mining, started, last, mined, appVars>>

\* subprocess.run (called without a timeout) never returns.
ClaimTransferHangs(p) ==
    /\ proc[p].pc = "transfer"
    /\ proc' = [proc EXCEPT ![p] =
                   [IdleProc EXCEPT
                       !.pc = "hung", !.kind = "claim", !.user = proc[p].user,
                       !.account = proc[p].account,
                       !.res = [outcome |-> "hung", db_success |-> FALSE]]]
    /\ UNCHANGED <<now, ccc_mining, started, last, mined, faucetVars, appVars>>

NextFaucet ==
    \/ TickEdge
    \/ \E p \in Procs, u \in Users, text \in Texts, rfail \in BOOLEAN :
           ClaimBegin(p, u, text, rfail)
    \/ \E p \in Procs, outcome \in Outcomes, wfail \in BOOLEAN :
           ClaimTransfer(p, outcome, wfail)
    \/ \E p \in Procs : ClaimTransferHangs(p)
    \/ \E p \in Procs : Reply(p)

\* faucet.py token faucet, the requests interleaved at their suspensions.
SpecFaucet == Init /\ [][NextFaucet]_vars

\* A text message arrives in the run of one user's requests:
\* send_hbar_to_account up to its first suspension (line 403) or to its end
\* when the request is refused, as ClaimBegin, the decision kept in last.
DoSendHbarBegin(p, u, text, rfail) ==
    LET c == ClaimCheck(faucet_claims, u, text, now, rfail)
    IN  /\ proc[p].pc = "idle"
        /\ proc' = [proc EXCEPT ![p] =
               IF c.decision = "proceed"
               THEN [IdleProc EXCEPT !.pc = "transfer", !.kind = "claim",
                                     !.user = u, !.current_time = now,
                                     !.account = c.account,
                                     !.action_type = c.action_type]
               ELSE [IdleProc EXCEPT !.pc = "reply", !.kind = "claim",
                                     !.user = u,
                                     !.res = [outcome |-> c.decision,
                                              db_success |-> FALSE]]]
        /\ last' = [op |-> "send_hbar", user |-> u, time |-> now,
                    res |-> [outcome |-> c.decision, db_success |-> FALSE],
                    before |-> faucet_claims, after |-> faucet_claims,
                    text |-> Strip(text), rfail |-> rfail,
                    hits |-> last.hits \cup
                        IF /\ ~rfail
                           /\ u \in DOMAIN faucet_claims
                           /\ faucet_claims[u].hedera_account_id = Strip(text)
                           /\ now - faucet_claims[u].last_claim_timestamp
                                  = COOLDOWN_SECONDS * Res
                        THEN {"send_hbar"} ELSE {}]
        /\ UNCHANGED <<now, ccc_mining, mined, faucetVars, appVars>>

\* --------------------------------------------------------------- app.py
\* A nullable column holds <<>> (NULL) or <<v>>.
Null == <<>>

\* The telegram usernames; <<>> is a user without a username.
Usernames == {<<"user", u>> : u \in Users}

\* The account identifiers the web app sends.
AppAccounts == {"0.0.7", "0.0.8"}

\* Python truthiness of a user id, a timestamp or None (<<>>).
Truthy(x) == x # <<>> /\ x # <<0>>

\* get_user_data: the id of the row of username, 0 when there is none.
UserIdOf(tbl, username) ==
    IF \E i \in 1..Len(tbl) : tbl[i].telegram_username = username
    THEN CHOOSE i \in 1..Len(tbl) : tbl[i].telegram_username = username
    ELSE 0

\* create_user: INSERT; the id is the next rowid; None (0) when the username
\* exists (UNIQUE).
CreateUser(tbl, username) ==
    IF UserIdOf(tbl, username) # 0
    THEN [db |-> tbl, id |-> 0]
    ELSE [db |-> Append(tbl, [telegram_username |-> username,
                              hedera_account_id |-> Null,
                              ccc_tokens |-> 0]),
          id |-> Len(tbl) + 1]

\* Variant of AccountTaken: the UNIQUE constraint on hedera_account_id left out.
AccountTakenNever(tbl, user_id, account) == FALSE

\* Variant of AccountTaken: the user's own row counts as well.
AccountTakenAny(tbl, user_id, account) ==
    \E j \in 1..Len(tbl) : tbl[j].hedera_account_id = <<account>>

\* UNIQUE(hedera_account_id): another row holds the account.
AccountTaken(tbl, user_id, account) ==
    \E j \in 1..Len(tbl) : j # user_id /\ tbl[j].hedera_account_id = <<account>>

\* update_hedera_account: UPDATE users SET hedera_account_id WHERE id; False
\* on sqlite3.IntegrityError, True otherwise (also when no row has the id).
UpdateHederaAccount(tbl, user_id, account) ==
    IF user_id \notin 1..Len(tbl)
    THEN [db |-> tbl, ok |-> TRUE]
    ELSE IF AccountTaken(tbl, user_id, account)
         THEN [db |-> tbl, ok |-> FALSE]
         ELSE [db |-> [tbl EXCEPT ![user_id].hedera_account_id = <<account>>],
               ok |-> TRUE]

\* The rows of mining_sessions of user_id, in rowid order.
SessionsOf(sessions, user_id) ==
    SelectSeq(sessions, LAMBDA r : r.user_id = user_id)

\* complete_mining_session: the DELETE of the session and the credit.
CompleteMiningSession(tbl, sessions, user_id, session_start_time) ==
    [users |-> IF user_id \in 1..Len(tbl)
               THEN [tbl EXCEPT ![user_id].ccc_tokens = @ + CCC_PER_SESSION]
               ELSE tbl,
     sessions |-> SelectSeq(sessions,
                      LAMBDA r : ~(r.user_id = user_id
                                   /\ r.start_time = session_start_time))]

\* Variant of SessionRunning: the elapsed ticks compared with the duration in
\* seconds, so that a session ends before its window has passed.
SessionRunningSeconds(elapsed_time) == elapsed_time < MINING_DURATION_SECONDS

\* The test of get_active_mining_session on an elapsed time in ticks.
SessionRunning(elapsed_time) == elapsed_time < MINING_DURATION_SECONDS * Res

\* Whether the SELECT of get_active_mining_session is still open after its
\* fetchone(): the user has a further row, so the cursor holds its read lock
\* while the function goes on (the connection is closed on return only).
SelectPending(sessions, user_id) == Len(SessionsOf(sessions, user_id)) >= 2

\* get_active_mining_session at time t: ret is <<start_time>> or None (<<>>).
\* With the SELECT still open, the commit of complete_mining_session on its
\* own connection fails (sqlite3.OperationalError, database is locked): the
\* DELETE and the UPDATE are rolled back and the exception leaves the
\* function and the handler (raised).
GetActiveMiningSession(tbl, sessions, user_id, t) ==
    LET mine == SessionsOf(sessions, user_id)
    IN  IF mine = <<>>
        THEN [users |-> tbl, sessions |-> sessions, ret |-> <<>>,
              raised |-> FALSE]
        ELSE LET start_time == mine[1].start_time
             IN  IF SessionRunning(t - start_time)
                 THEN [users |-> tbl, sessions |-> sessions,
                       ret |-> <<start_time>>, raised |-> FALSE]
                 ELSE IF SelectPending(sessions, user_id)
                 THEN [users |-> tbl, sessions |-> sessions, ret |-> <<>>,
                       raised |-> TRUE]
                 ELSE LET c == CompleteMiningSession(tbl, sessions, user_id,
                                                     start_time)
                      IN  [users |-> c.users, sessions |-> c.sessions,
                           ret |-> <<>>, raised |-> FALSE]

\* start_mining_session: INSERT of a session starting at time t (the table
\* has no constraint that could refuse it).
StartMiningSession(sessions, user_id, t) ==
    Append(sessions, [user_id |-> user_id, start_time |-> t])

\* launch_web_ui from the point where the row of the user is in user_data
\* (lines 126-149), at time t: the tables afterwards and the data handed to
\* the web app; reply "raised" when get_active_mining_session raised and
\* nothing is sent.
LaunchOpen(tbl, sessions, user_id, t) ==
    LET user_data == tbl[user_id]
        a == GetActiveMiningSession(tbl, sessions, user_id, t)
    IN  IF a.raised
        THEN [users |-> a.users, sessions |-> a.sessions,
              res |-> [reply |-> "raised"]]
        ELSE [users |-> a.users, sessions |-> a.sessions,
              res |-> [reply |-> "webapp",
                       userId |-> user_id,
                       username |-> user_data.telegram_username,
                       hederaAccountId |-> user_data.hedera_account_id,
                       cccTokens |-> user_data.ccc_tokens,
                       miningSessionStart |->
                           IF Truthy(a.ret) THEN a.ret ELSE <<>>,
                       miningDuration |-> MINING_DURATION_SECONDS]]

\* launch_web_ui (/start) of the user named username, run without another
\* request in between, at time t.
LaunchWebUi(tbl, sessions, username, t) ==
    IF username = <<>>
    THEN [users |-> tbl, sessions |-> sessions,
          res |-> [reply |-> "no_username"]]
    ELSE LET known == UserIdOf(tbl, username)
             tbl1 == IF known = 0 THEN CreateUser(tbl, username).db ELSE tbl
         IN  LaunchOpen(tbl1, sessions, UserIdOf(tbl1, username), t)

\* The payloads the web app sends: userId (0: missing), action, hederaAccountId
\* (<<>>: missing).
Payloads ==
    [userId : 0..NumUsers,
     action : {"link_hedera"},
     hederaAccountId : {Null} \cup {<<a>> : a \in AppAccounts}]
    \cup [userId : 0..NumUsers,
          action : {"start_mining", "other"},
          hederaAccountId : {Null}]

\* web_app_data of app.py run as a whole on payload data: t is the reading of
\* the clock in get_active_mining_session (line 76), t2 the later one of
\* start_mining_session (line 90).
WebAppData(tbl, sessions, data, t, t2) ==
    LET same == [users |-> tbl, sessions |-> sessions]
    IN  IF ~Truthy(<<data.userId>>)
        THEN [users |-> tbl, sessions |-> sessions, reply |-> "no_user_id"]
        ELSE IF data.action = "link_hedera"
        THEN IF data.hederaAccountId # Null
             THEN LET r == UpdateHederaAccount(tbl, data.userId,
                                               data.hederaAccountId[1])
                  IN  [users |-> r.db, sessions |-> sessions,
                       reply |-> IF r.ok THEN "linked" ELSE "link_failed"]
             ELSE [users |-> tbl, sessions |-> sessions, reply |-> "no_account"]
        ELSE IF data.action = "start_mining"
        THEN LET a == GetActiveMiningSession(tbl, sessions, data.userId, t)
             IN  IF a.raised
                 THEN [users |-> a.users, sessions |-> a.sessions,
                       reply |-> "raised"]
                 ELSE IF ~Truthy(a.ret)
                 THEN [users |-> a.users,
                       sessions |-> StartMiningSession(a.sessions,
                                                       data.userId, t2),
                       reply |-> "started"]
                 ELSE [users |-> a.users, sessions |-> a.sessions,
                       reply |-> "already_active"]
        ELSE [users |-> tbl, sessions |-> sessions, reply |-> "echo"]

\* The first open session of user_id, <<row>>, or <<>>.
FirstSession(sessions, user_id) ==
    IF SessionsOf(sessions, user_id) = <<>>
    THEN <<>>
    ELSE <<SessionsOf(sessions, user_id)[1]>>

\* Whether a call for user_id at the present time finds the user's session
\* exactly MINING_DURATION_SECONDS old.
SessionAtBoundary(user_id) ==
    /\ FirstSession(mining_sessions, user_id) # <<>>
    /\ now - FirstSession(mining_sessions, user_id)[1].start_time
           = MINING_DURATION_SECONDS * Res

\* Whether web_app_data on payload data reads the clock twice: start_mining
\* for a user id that has a session row, which is found running or is
\* completed without an exception, and start_mining_session after it.
BothSessionReadings(tbl, sessions, data, t) ==
    /\ Truthy(<<data.userId>>)
    /\ data.action = "start_mining"
    /\ SessionsOf(sessions, data.userId) # <<>>
    /\ WebAppData(tbl, sessions, data, t, t).reply = "started"

\* /start of a user who has no username or is registered: the handler runs
\* to its end without a suspension.
DoLaunchWebUi(username) ==
    LET r == LaunchWebUi(users, mining_sessions, username, now)
        user_id == UserIdOf(r.users, username)
    IN  /\ username = <<>> \/ UserIdOf(users, username) # 0
        /\ users' = r.users
        /\ mining_sessions' = r.sessions
        /\ last' = [op |-> "launch_web_ui", user |-> user_id, time |-> now,
                    res |-> r.res,
                    before |-> [users |-> users, sessions |-> mining_sessions],
                    after |-> [users |-> r.users, sessions |-> r.sessions],
                    hits |-> last.hits \cup
                        IF SessionAtBoundary(user_id)
                        THEN {"session"} ELSE {}]
        /\ UNCHANGED <<now, ccc_mining, proc, mined, faucetVars>>

\* /start of a user not yet registered, up to its suspension (await
\* reply_text "Welcome! ...", line 120): the row is created.
DoLaunchRegister(p, username) ==
    LET c == CreateUser(users, username)
    IN  /\ proc[p].pc = "idle"
        /\ username # <<>>
        /\ UserIdOf(users, username) = 0
        /\ users' = c.db
        /\ proc' = [proc EXCEPT ![p] =
               [IdleProc EXCEPT !.pc = "registered", !.kind = "launch",
                                !.user = c.id]]
        /\ UNCHANGED <<now, ccc_mining, last, mined, faucetVars,
                       mining_sessions>>

\* /start of a new user resumes: the row is read again (line 121) and the
\* handler runs to its end.
DoLaunchResume(p) ==
    LET user_id == proc[p].user
        r == LaunchOpen(users, mining_sessions, user_id, now)
    IN  /\ proc[p].pc = "registered"
        /\ users' = r.users
        /\ mining_sessions' = r.sessions
        /\ proc' = [proc EXCEPT ![p] = IdleProc]
        /\ last' = [op |-> "launch_web_ui", user |-> user_id, time |-> now,
                    res |-> r.res,
                    before |-> [users |-> users, sessions |-> mining_sessions],
                    after |-> [users |-> r.users, sessions |-> r.sessions],
                    hits |-> last.hits \cup
                        IF SessionAtBoundary(user_id)
                        THEN {"session"} ELSE {}]
        /\ UNCHANGED <<now, ccc_mining, started, mined, faucetVars>>

\* A web app message handled as a whole; the clock may advance between the
\* two readings of a start_mining request.
DoWebAppData(data) ==
    \E t2 \in ClockDuring(now) :
        LET r == WebAppData(users, mining_sessions, data, now, t2)
        IN  /\ t2 # now
                  => BothSessionReadings(users, mining_sessions, data, now)
            /\ now' = t2
            /\ users' = r.users
            /\ mining_sessions' = r.sessions
            /\ last' = [op |-> "web_app_data", user |-> data.userId,
                        time |-> now, read |-> t2,
                        data |-> data, res |-> [reply |-> r.reply],
                        before |-> [users |-> users,
                                    sessions |-> mining_sessions],
                        after |-> [users |-> r.users, sessions |-> r.sessions],
                        hits |-> last.hits \cup
                            IF data.action = "start_mining"
                               /\ SessionAtBoundary(data.userId)
                            THEN {"session"} ELSE {}]
            /\ UNCHANGED <<ccc_mining, proc, mined, faucetVars>>

\* One more request is received, of at most max in the run.
Count(max) == started < max /\ started' = started + 1

NextApp ==
    \/ TickEdge
    \/ \E username \in Usernames \cup {<<>>} :
           DoLaunchWebUi(username) /\ Count(MaxAppRequests)
    \/ \E p \in Procs, username \in Usernames :
           DoLaunchRegister(p, username) /\ Count(MaxAppRequests)
    \/ \E p \in Procs : DoLaunchResume(p)
    \/ \E data \in Payloads : DoWebAppData(data) /\ Count(MaxAppRequests)

\* app.py, requests handled one at a time.
SpecApp == Init /\ [][NextApp]_vars

\* A web app message sent by the telegram user named sender (<<>>: no
\* username), handled as a whole: web_app_data reads the payload only, so the
\* sender has no part in what is done; it is recorded with the call.
DoWebAppDataFrom(sender, data) ==
    \E t2 \in ClockDuring(now) :
        LET r == WebAppData(users, mining_sessions, data, now, t2)
        IN  /\ t2 # now
                  => BothSessionReadings(users, mining_sessions, data, now)
            /\ now' = t2
            /\ users' = r.users
            /\ mining_sessions' = r.sessions
            /\ last' = [op |-> "web_app_data", user |-> data.userId,
                        time |-> now, read |-> t2, sender |-> sender,
                        data |-> data, res |-> [reply |-> r.reply],
                        before |-> [users |-> users,
                                    sessions |-> mining_sessions],
                        after |-> [users |-> r.users, sessions |-> r.sessions],
                        hits |-> last.hits \cup
                            IF data.action = "start_mining"
                               /\ SessionAtBoundary(data.userId)
                            THEN {"session"} ELSE {}]
            /\ UNCHANGED <<ccc_mining, proc, mined, faucetVars>>

NextAppFrom ==
    \/ TickEdge
    \/ \E username \in Usernames \cup {<<>>} :
           DoLaunchWebUi(username) /\ Count(MaxFromRequests)
    \/ \E p \in Procs, username \in Usernames :
           DoLaunchRegister(p, username) /\ Count(MaxFromRequests)
    \/ \E p \in Procs : DoLaunchResume(p)
    \/ \E sender \in Usernames \cup {<<>>}, data \in Payloads :
           DoWebAppDataFrom(sender, data) /\ Count(MaxFromRequests)

\* app.py, requests handled one at a time, every web app message with its
\* sender.
SpecAppFrom == Init /\ [][NextAppFrom]_vars

\* ------------------------------------- app.py, requests interleaved
\* Each transaction on the store is one step: the SELECT of
\* get_active_mining_session, the DELETE and UPDATE of complete_mining_session
\* (one commit), the INSERT of start_mining_session.

\* Whether the SELECT of get_active_mining_session of request q is still
\* open: it holds its read lock on bot_data.db until the function returns.
SelectOpen(q) == proc[q].pc = "complete" /\ proc[q].pending

\* Whether a write of request p finds the store locked by the open SELECT of
\* another request: its commit raises sqlite3.OperationalError (database is
\* locked), which no function of app.py catches.
StoreLocked(p) == \E q \in Procs \ {p} : SelectOpen(q)

\* /start arrives: launch_web_ui looks the user up (lines 110-113); with a
\* row it goes on to get_active_mining_session, without one to create_user.
LaunchBegin(p, username) ==
    LET known == UserIdOf(users, username)
    IN  /\ proc[p].pc = "idle"
        /\ username # <<>>
        /\ Count(MaxAppRequests)
        /\ proc' = [proc EXCEPT ![p] =
               IF known # 0
               THEN [IdleProc EXCEPT !.pc = "session_select",
                                     !.kind = "launch", !.user = known]
               ELSE [IdleProc EXCEPT !.pc = "register", !.kind = "launch",
                                     !.username = username]]
        /\ UNCHANGED <<now, ccc_mining, last, mined, faucetVars, appVars>>

\* create_user of a /start that found no row (lines 114-124): the commit
\* raises when the store is locked; the INSERT is refused when the username
\* has been registered since the lookup, and the handler replies "Could not
\* register you"; otherwise the row is stored and the handler suspends in
\* its reply "Welcome! ..." (line 120).
LaunchRegister(p) ==
    LET q == proc[p]
        c == CreateUser(users, q.username)
    IN  /\ q.pc = "register"
        /\ users' = IF StoreLocked(p) THEN users ELSE c.db
        /\ proc' = [proc EXCEPT ![p] =
               IF StoreLocked(p)
               THEN IdleProc
               ELSE IF c.id = 0
               THEN [IdleProc EXCEPT !.pc = "reply", !.kind = "launch"]
               ELSE [IdleProc EXCEPT !.pc = "registered", !.kind = "launch",
                                     !.user = c.id,
                                     !.username = q.username]]
        /\ UNCHANGED <<now, ccc_mining, started, last, mined, faucetVars,
                       mining_sessions>>

\* The /start of a new user resumes after its reply: the second lookup of
\* the row (line 121), from which the handler takes the id and goes on to
\* get_active_mining_session (lines 126-135).
LaunchReload(p) ==
    LET q == proc[p]
    IN  /\ q.pc = "registered"
        /\ q.kind = "launch"
        /\ proc' = [proc EXCEPT ![p] =
               [IdleProc EXCEPT !.pc = "session_select", !.kind = "launch",
                                !.user = UserIdOf(users, q.username)]]
        /\ UNCHANGED <<now, ccc_mining, started, last, mined, faucetVars,
                       appVars>>

\* Whether web_app_data on payload data calls update_hedera_account.
LinksAccount(data) ==
    /\ Truthy(<<data.userId>>)
    /\ data.action = "link_hedera"
    /\ data.hederaAccountId # Null

\* web_app_data receives a payload that is no start_mining request (no
\* userId, link_hedera, another action) and runs to its end, there being no
\* suspension before its reply; update_hedera_account raises when the store
\* is locked.
WebAppDataOther(data) ==
    LET r == WebAppData(users, mining_sessions, data, now, now)
        locked == \E q \in Procs : SelectOpen(q)
    IN  /\ ~Truthy(<<data.userId>>) \/ data.action # "start_mining"
        /\ Count(MaxAppRequests)
        /\ users' = IF LinksAccount(data) /\ locked THEN users ELSE r.users
        /\ UNCHANGED <<now, ccc_mining, proc, last, mined, faucetVars,
                       mining_sessions>>

\* web_app_data receives "start_mining" with a userId (lines 152-172).
StartMiningBegin(p, user_id) ==
    /\ proc[p].pc = "idle"
    /\ Truthy(<<user_id>>)
    /\ Count(MaxAppRequests)
    /\ proc' = [proc EXCEPT ![p] =
           [IdleProc EXCEPT !.pc = "session_select", !.kind = "start_mining",
                            !.user = user_id]]
    /\ UNCHANGED <<now, ccc_mining, last, mined, faucetVars, appVars>>

\* The slot of request q once get_active_mining_session has returned ret:
\* /start replies; start_mining opens a session unless ret is truthy.
AfterActive(q, ret) ==
    IF q.kind = "start_mining" /\ ~Truthy(ret)
    THEN [q EXCEPT !.pc = "start", !.current_time = 0]
    ELSE [q EXCEPT !.pc = "reply", !.current_time = 0]

\* get_active_mining_session: the SELECT of the user's session and the test
\* of its age (lines 72-77).
SessionSelect(p) ==
    LET q == proc[p]
        session == FirstSession(mining_sessions, q.user)
    IN  /\ q.pc = "session_select"
        /\ proc' = [proc EXCEPT ![p] =
               IF session = <<>>
               THEN AfterActive(q, <<>>)
               ELSE IF SessionRunning(now - session[1].start_time)
                    THEN AfterActive(q, <<session[1].start_time>>)
                    ELSE [q EXCEPT !.pc = "complete",
                                   !.current_time = session[1].start_time,
                                   !.pending = SelectPending(
                                                  mining_sessions, q.user)]]
        /\ UNCHANGED <<now, ccc_mining, started, last, mined, faucetVars,
                       appVars>>

\* complete_mining_session for the session read before: DELETE, UPDATE,
\* commit (lines 97-106); get_active_mining_session then returns None. With
\* the request's own SELECT still open (pending), or that of another
\* request, the commit fails and the request ends with the exception, the
\* store as it was.
SessionComplete(p) ==
    LET q == proc[p]
        c == CompleteMiningSession(users, mining_sessions, q.user,
                                   q.current_time)
        raised == q.pending \/ StoreLocked(p)
    IN  /\ q.pc = "complete"
        /\ users' = IF raised THEN users ELSE c.users
        /\ mining_sessions' = IF raised THEN mining_sessions ELSE c.sessions
        /\ proc' = [proc EXCEPT ![p] =
               IF raised THEN IdleProc ELSE AfterActive(q, <<>>)]
        /\ UNCHANGED <<now, ccc_mining, started, last, mined, faucetVars>>

\* start_mining_session: the INSERT of a session starting now; its commit
\* raises when the store is locked and the request ends with the exception.
SessionStart(p) ==
    /\ proc[p].pc = "start"
    /\ mining_sessions' =
           IF StoreLocked(p)
           THEN mining_sessions
           ELSE StartMiningSession(mining_sessions, proc[p].user, now)
    /\ proc' = [proc EXCEPT ![p] =
           IF StoreLocked(p) THEN IdleProc
                             ELSE [proc[p] EXCEPT !.pc = "reply"]]
    /\ UNCHANGED <<now, ccc_mining, started, last, mined, faucetVars, users>>

NextAppConc ==
    \/ TickEdge
    \/ \E p \in Procs, username \in Usernames : LaunchBegin(p, username)
    \/ \E p \in Procs : LaunchRegister(p)
    \/ \E p \in Procs : LaunchReload(p)
    \/ \E data \in Payloads : WebAppDataOther(data)
    \/ \E p \in Procs, user_id \in Users : StartMiningBegin(p, user_id)
    \/ \E p \in Procs : SessionSelect(p)
    \/ \E p \in Procs : SessionComplete(p)
    \/ \E p \in Procs : SessionStart(p)
    \/ \E p \in Procs : Reply(p)

\* app.py sessions, the transactions of concurrent requests interleaved.
SpecAppConc == Init /\ [][NextAppConc]_vars

\* ------------------------------------------ one user, both programs
\* The requests of user 1 to the mining bot, the faucet and the web app bot
\* on one clock, handled one at a time but for the suspension of
\* send_hbar_to_account before its transfer.
NextOne ==
    \/ TickEdge
    \/ DoGetMiningStatus(1) /\ Count(MaxSeqRequests)
    \/ DoProcessMining(1) /\ Count(MaxSeqRequests)
    \/ \E p \in Procs, text \in Texts :
           DoSendHbarBegin(p, 1, text, FALSE) /\ Count(MaxSeqRequests)
    \/ \E p \in Procs, outcome \in Outcomes : ClaimTransfer(p, outcome, FALSE)
    \/ \E p \in Procs : Reply(p)
    \/ DoLaunchWebUi(<<"user", 1>>) /\ Count(MaxSeqRequests)
    \/ \E data \in Payloads :
           data.userId = 1 /\ DoWebAppData(data) /\ Count(MaxSeqRequests)

\* The state after user 1 has mined (process_mining), claimed account 0.0.7
\* (send_hbar_to_account, transfer successful), registered (launch_web_ui)
\* and started a session (web_app_data, start_mining), all at a time t0.
InitOne ==
    \E t0 \in EdgeGrid :
        /\ now = t0
        /\ ccc_mining = PutRow(<<>>, 1, MinedRow(t0, StatusNewUser))
        /\ mined = [u \in Users |->
                       IF u = 1 THEN [count |-> 1, at |-> t0]
                                ELSE [count |-> 0, at |-> -1]]
        /\ faucet_claims =
               AddUserClaim(<<>>, 1, <<"0", ".", "0", ".", "7">>, t0, FALSE).db
        /\ transfers = [u \in Users |->
                           IF u = 1 THEN [at |-> t0, close |-> FALSE]
                                    ELSE [at |-> -1, close |-> FALSE]]
        /\ users = CreateUser(<<>>, <<"user", 1>>).db
        /\ mining_sessions = StartMiningSession(<<>>, 1, t0)
        /\ proc = [p \in Procs |-> IdleProc]
        /\ started = 0
        /\ last = NoCall

\* One user's requests to both programs.
Spec == InitOne /\ [][NextOne]_vars

\* --------------------------- both programs, requests of all users interleaved
\* The requests of every user to the mining bot, the faucet and the web app
\* bot, their steps interleaved, after user 1 has used all three.
NextAll ==
    \/ TickEdge
    \/ \E p \in Procs, u \in Users :
           started < MaxAllRequests /\ MineBegin(p, u)
    \/ \E p \in Procs, u \in Users :
           started < MaxAllRequests /\ StatusBegin(p, u)
    \/ \E p \in Procs : StatusSelect(p)
    \/ \E p \in Procs : StatusInsert(p)
    \/ \E p \in Procs : MineWrite(p)
    \/ \E p \in Procs, u \in Users, text \in Texts, rfail \in BOOLEAN :
           started < MaxAllRequests /\ ClaimBegin(p, u, text, rfail)
    \/ \E p \in Procs, outcome \in Outcomes, wfail \in BOOLEAN :
           ClaimTransfer(p, outcome, wfail)
    \/ \E p \in Procs : ClaimTransferHangs(p)
    \/ \E p \in Procs, username \in Usernames :
           started < MaxAllRequests /\ LaunchBegin(p, username)
    \/ \E p \in Procs : LaunchRegister(p)
    \/ \E p \in Procs : LaunchReload(p)
    \/ \E data \in Payloads :
           started < MaxAllRequests /\ WebAppDataOther(data)
    \/ \E p \in Procs, user_id \in Users :
           started < MaxAllRequests /\ StartMiningBegin(p, user_id)
    \/ \E p \in Procs : SessionSelect(p)
    \/ \E p \in Procs : SessionComplete(p)
    \/ \E p \in Procs : SessionStart(p)
    \/ \E p \in Procs : Reply(p)

\* Both programs, the steps of concurrent requests interleaved.
SpecAll == InitOne /\ [][NextAll]_vars

\* ------------------------------------------------------------- claims
\* The cooldown in ticks.
D == COOLDOWN_SECONDS * Res

\* The last completed call is a process_mining call of a user whose previous
\* successful process_mining call is less than the cooldown back, the time of
\* a call being the reading it takes as its current_time (and stores when it
\* succeeds).
MinedAgainInCooldown ==
    /\ last.op = "process_mining"
    /\ last.prev.count > 0
    /\ last.time - last.prev.at < D

\* C1: a process_mining call less than COOLDOWN_SECONDS after the user's last
\* successful one returns success = false and leaves the user's stored
\* ccc_balance and last_mine_timestamp unchanged.
C1_CooldownRefuses ==
    MinedAgainInCooldown =>
        /\ ~last.res.success
        /\ last.after[last.user] = last.before[last.user]

\* C4: a user never granted a reward is eligible at any time, also after
\* status checks: the status of a new user is can_mine, 0 remaining, balance
\* 0; the first process_mining succeeds with balance 1; one 100 seconds later
\* fails with COOLDOWN_SECONDS - 100 remaining and balance 1; one
\* COOLDOWN_SECONDS later succeeds with balance 2.
C4_NewUserScenario ==
    /\ (last.op = "get_mining_status" /\ last.user \notin DOMAIN last.before)
           => /\ last.res.can_mine
              /\ last.res.time_remaining = 0
              /\ last.res.balance = 0
    /\ (last.op = "process_mining" /\ last.prev.count = 0)
           => /\ last.res.success
              /\ last.res.balance = 1
    /\ (last.op = "process_mining" /\ last.prev.count = 1
            /\ last.time - last.prev.at = 100 * Res)
           => /\ ~last.res.success
              /\ last.res.time_remaining = COOLDOWN_SECONDS - 100
              /\ last.res.balance = 1
    /\ (last.op = "process_mining" /\ last.prev.count = 1
            /\ last.time - last.prev.at = D)
           => /\ last.res.success
              /\ last.res.balance = 2

\* C5: with the calls executed one at a time, the stored ccc_balance of every
\* user is the reward times the number of that user's successful
\* process_mining calls.
C5_ExactAccumulation ==
    \A u \in Users :
        IF u \in DOMAIN ccc_mining
        THEN ccc_mining[u].ccc_balance = reward * mined[u].count
        ELSE mined[u].count = 0

\* C5 witness: a user has mined successfully three times.
C5_Witness ==
    \E u \in Users : mined[u].count = 3 /\ ccc_mining[u].ccc_balance = 3

\* C2: of two concurrent process_mining requests of a user without a record,
\* exactly one returns success = true, the other success = false, and the
\* stored balance is 1 afterwards.
C2_ExactlyOneSucceeds ==
    \A p, q \in Procs :
        ( /\ p # q
          /\ proc[p].pc = "reply" /\ proc[q].pc = "reply"
          /\ proc[p].kind = "mine" /\ proc[q].kind = "mine"
          /\ proc[p].user = proc[q].user
          /\ proc[p].fresh /\ proc[q].fresh )
        => /\ proc[p].res.success # proc[q].res.success
           /\ ccc_mining[proc[p].user].ccc_balance = 1

\* C6: no step lowers the stored balance of a user.
C6_BalanceNeverDecreases ==
    [][\A u \in DOMAIN ccc_mining :
           /\ u \in DOMAIN ccc_mining'
           /\ ccc_mining'[u].ccc_balance >= ccc_mining[u].ccc_balance]_vars

\* C7: any two transfers that reported success for the same user are at
\* least COOLDOWN_SECONDS apart.
C7_TransfersCooldownApart == \A u \in Users : ~transfers[u].close

\* C8: a transfer that fails, raises or never reports leaves faucet_claims as
\* it was, and faucet_claims is written only by the step in which a transfer
\* reported success.
C8_FailedTransferWritesNothing ==
    [][ /\ \A p \in Procs :
              ( /\ proc[p].pc = "transfer"
                /\ proc'[p].pc # "transfer"
                /\ proc'[p].res.outcome # "ok" )
              => faucet_claims' = faucet_claims
        /\ faucet_claims' # faucet_claims
              => \E p \in Procs :
                     /\ proc[p].pc = "transfer"
                     /\ proc'[p].pc = "reply"
                     /\ proc'[p].res.outcome = "ok" ]_vars

\* C8 witness: the transfer of a user who has a faucet_claims row returned a
\* non-zero exit code.
C8_Witness ==
    \E p \in Procs :
        /\ proc[p].kind = "claim"
        /\ proc[p].pc = "reply"
        /\ proc[p].res.outcome = "failed"
        /\ proc[p].user \in DOMAIN faucet_claims

\* C10: no two users have faucet_claims rows with the same hedera_account_id.
C10_FaucetAccountsUnique ==
    \A u, v \in DOMAIN faucet_claims :
        u # v => faucet_claims[u].hedera_account_id
                     # faucet_claims[v].hedera_account_id

\* The session length in ticks.
Dm == MINING_DURATION_SECONDS * Res

\* C3, mining: with a stored row and elapsed = now - last_mine_timestamp, now
\* the current_time of the call, get_mining_status reports can_mine exactly
\* when elapsed >= COOLDOWN_SECONDS; process_mining succeeds whenever
\* elapsed >= COOLDOWN_SECONDS and is refused only when elapsed <
\* COOLDOWN_SECONDS; at elapsed = COOLDOWN_SECONDS it credits 1 and stores now
\* as last_mine_timestamp.
C3_Mining ==
    (last.op \in {"get_mining_status", "process_mining"}
        /\ last.user \in DOMAIN last.before)
    => LET row == last.before[last.user]
           elapsed == last.time - row.last_mine_timestamp
       IN  /\ last.op = "get_mining_status"
                => /\ last.res.can_mine <=> elapsed >= D
                   /\ elapsed = D => last.res.time_remaining = 0
           /\ last.op = "process_mining"
                => /\ elapsed >= D => last.res.success
                   /\ ~last.res.success => elapsed < D
                   /\ elapsed = D =>
                          last.after[last.user] =
                              [last_mine_timestamp |-> last.time,
                               ccc_balance |-> row.ccc_balance + 1]

\* C3, faucet: a claim for the stored account is refused for cooldown exactly
\* when elapsed < COOLDOWN_SECONDS and otherwise goes on to the transfer.
C3_Faucet ==
    (last.op = "send_hbar" /\ ~last.rfail
        /\ last.user \in DOMAIN last.before
        /\ last.before[last.user].hedera_account_id = last.text)
    => LET elapsed == last.time
                          - last.before[last.user].last_claim_timestamp
       IN  /\ last.res.outcome = "wait" <=> elapsed < D
           /\ elapsed >= D => last.res.outcome = "proceed"

\* C3, sessions: get_active_mining_session (reached from /start and from
\* start_mining) completes the user's session, the one row the user has,
\* exactly when elapsed >= MINING_DURATION_SECONDS: the row is removed and
\* CCC_PER_SESSION credited.
C3_Session ==
    ((last.op = "launch_web_ui"
         \/ (last.op = "web_app_data" /\ last.res.reply
                 \in {"started", "already_active"}))
        /\ last.user \in 1..Len(last.before.users)
        /\ FirstSession(last.before.sessions, last.user) # <<>>
        /\ ~SelectPending(last.before.sessions, last.user))
    => LET row == FirstSession(last.before.sessions, last.user)[1]
           elapsed == last.time - row.start_time
           left == \E i \in 1..Len(last.after.sessions) :
                       last.after.sessions[i] = row
           gain == last.after.users[last.user].ccc_tokens
                       - last.before.users[last.user].ccc_tokens
       IN  /\ elapsed >= Dm => ~left /\ gain = CCC_PER_SESSION
           /\ elapsed < Dm => left /\ gain = 0

\* C3: every cooldown check treats the boundary elapsed == D as eligible and
\* refuses only elapsed < D.
C3_BoundaryInclusive == C3_Mining /\ C3_Faucet /\ C3_Session

\* C3 witness: process_mining, send_hbar_to_account and
\* get_active_mining_session have each run with elapsed == D exactly.
C3_Witness ==
    /\ {"mine", "send_hbar", "session"} \subseteq last.hits
    /\ ccc_mining[1].ccc_balance = 2
    /\ faucet_claims[1].last_claim_timestamp = now
    /\ users[1].ccc_tokens = 1

\* Whether the last call is a link_hedera request of an existing user for an
\* account that another user holds.
LinkOfTakenAccount ==
    /\ last.op = "web_app_data"
    /\ last.data.action = "link_hedera"
    /\ last.data.hederaAccountId # Null
    /\ last.user \in 1..Len(last.before.users)
    /\ \E j \in 1..Len(last.before.users) :
           /\ j # last.user
           /\ last.before.users[j].hedera_account_id = last.data.hederaAccountId

\* C9: update_hedera_account(U2, A) with A held by another user U1 fails and
\* changes no linked account; no two rows of users ever hold the same
\* non-null hedera_account_id.
C9_AccountUnique ==
    /\ LinkOfTakenAccount
          => last.res.reply = "link_failed" /\ last.after.users = last.before.users
    /\ \A i, j \in 1..Len(users) :
          (i # j /\ users[i].hedera_account_id # Null)
          => users[i].hedera_account_id # users[j].hedera_account_id

\* C9 witness: a link of an account held by another user was refused, the
\* requesting user still without an account.
C9_Witness ==
    /\ LinkOfTakenAccount
    /\ users[last.user].hedera_account_id = Null
    /\ last.res.reply = "link_failed"

\* Whether the last call is a link_hedera request naming an account, of a user
\* who has a row in users.
LinkOfKnownUser ==
    /\ last.op = "web_app_data"
    /\ last.data.action = "link_hedera"
    /\ last.data.hederaAccountId # Null
    /\ last.user \in 1..Len(last.before.users)

\* C11: a link_hedera request of a user who holds account A, naming another
\* account B, fails and leaves the stored account A.
C11_NoRelink ==
    ( /\ LinkOfKnownUser
      /\ last.before.users[last.user].hedera_account_id # Null
      /\ last.before.users[last.user].hedera_account_id
             # last.data.hederaAccountId )
    => /\ last.res.reply = "link_failed"
       /\ last.after.users[last.user].hedera_account_id
              = last.before.users[last.user].hedera_account_id

\* C13: whenever update_hedera_account reports success, the user has a row
\* and a lookup of it returns exactly the account named.
C13_LinkPersisted ==
    ( /\ last.op = "web_app_data"
      /\ last.data.action = "link_hedera"
      /\ last.res.reply = "linked" )
    => /\ last.user \in 1..Len(users)
       /\ users[last.user].hedera_account_id = last.data.hederaAccountId

\* C14: update_hedera_account(user, A) of a user who holds exactly A returns
\* success and leaves users and mining_sessions as they were.
C14_LinkIdempotent ==
    ( /\ LinkOfKnownUser
      /\ last.before.users[last.user].hedera_account_id
             = last.data.hederaAccountId )
    => /\ last.res.reply = "linked"
       /\ last.after = last.before

\* C14 witness: a user linked the account the user already held.
C14_Witness ==
    /\ LinkOfKnownUser
    /\ last.before.users[last.user].hedera_account_id
           = last.data.hederaAccountId
    /\ users[last.user].hedera_account_id = last.data.hederaAccountId
    /\ last.res.reply = "linked"

\* C12: the hedera_account_id of an existing faucet_claims row never changes,
\* and a request of its user that names another account does not go on to the
\* external transfer.
C12_NoRelinkFaucet ==
    [][ \A u \in DOMAIN faucet_claims :
            /\ u \in DOMAIN faucet_claims'
            /\ faucet_claims'[u].hedera_account_id
                   = faucet_claims[u].hedera_account_id
            /\ \A p \in Procs :
                   ( /\ proc[p].pc = "idle"
                     /\ proc'[p].kind = "claim"
                     /\ proc'[p].user = u
                     /\ proc'[p].pc = "transfer" )
                   => proc'[p].account = faucet_claims[u].hedera_account_id
      ]_vars

\* Whether the last call ran get_active_mining_session for a user (a row of
\* users) whose open session, the row the SELECT returns, has age >=
\* MINING_DURATION_SECONDS.
FoundExpiredSession ==
    /\ \/ last.op = "launch_web_ui"
       \/ last.op = "web_app_data" /\ last.data.action = "start_mining"
    /\ last.user \in 1..Len(last.before.users)
    /\ FirstSession(last.before.sessions, last.user) # <<>>
    /\ last.time - FirstSession(last.before.sessions, last.user)[1].start_time
           >= Dm

\* C15: get_active_mining_session finding an expired session, from /start or
\* from start_mining, removes the session, credits exactly CCC_PER_SESSION to
\* the user and reports no active session; the store effect is the same on
\* both paths (start_mining then opens its new session).
C15_LazyCompletion ==
    FoundExpiredSession
    => LET u == last.user
           old == FirstSession(last.before.sessions, u)[1]
           rest == SelectSeq(last.before.sessions,
                       LAMBDA r : ~(r.user_id = u
                                    /\ r.start_time = old.start_time))
           credited == [last.before.users EXCEPT
                           ![u].ccc_tokens = @ + CCC_PER_SESSION]
       IN  /\ last.after.users = credited
           /\ last.op = "launch_web_ui"
                 => /\ last.after.sessions = rest
                    /\ last.res.miningSessionStart = <<>>
           /\ last.op = "web_app_data"
                 => /\ last.after.sessions
                          = Append(rest, [user_id |-> u,
                                          start_time |-> last.read])
                    /\ last.res.reply = "started"

\* The stored balance and timestamp of user u in tbl, a user without a row
\* counting as the row get_mining_status creates.
MiningRowOf(tbl, u) == IF u \in DOMAIN tbl THEN tbl[u] ELSE NewMiningRow

\* C17: when the store fails during process_mining, the result carries an
\* error indication and is no 'please wait' refusal, and the user's balance
\* and last_mine_timestamp are as before.
C17_StorageFailureSurfaced ==
    (last.op = "process_mining" /\ last.fail # "none")
    => /\ last.res.error
       /\ last.res.message # "wait"
       /\ MiningRowOf(last.after, last.user)
              = MiningRowOf(last.before, last.user)

\* C19: a process_mining call refused for cooldown returns success=false,
\* can_mine=false, time_remaining = COOLDOWN_SECONDS - elapsed truncated to
\* whole seconds, with 0 < COOLDOWN_SECONDS - elapsed <= COOLDOWN_SECONDS, and
\* the balance the store holds for the user.
C19_RefusalValues ==
    (last.op = "process_mining" /\ ~last.res.success)
    => /\ last.user \in DOMAIN last.before
       /\ LET row == last.before[last.user]
              left == D - (last.read - row.last_mine_timestamp)
          IN  /\ ~last.res.can_mine
              /\ 0 < left /\ left <= D
              /\ last.res.time_remaining * Res <= left
              /\ left < (last.res.time_remaining + 1) * Res
              /\ last.res.balance = row.ccc_balance
              /\ ccc_mining[last.user].ccc_balance = last.res.balance

\* C19 witness: a refusal whose remaining time is not a whole number of
\* seconds, of a user who has mined before.
C19_Witness ==
    /\ last.op = "process_mining"
    /\ ~last.res.success
    /\ last.prev.count >= 1
    /\ (D - (last.read - last.before[last.user].last_mine_timestamp)) % Res # 0

\* C20: get_mining_status leaves the record of a user who has one as it is,
\* whatever the elapsed time, and for a user without a record only creates
\* the record (timestamp 0, balance 0); the outcome of a process_mining call
\* after an earlier successful one depends on that one's time and on the
\* number of successes alone, not on the status calls in between.
C20_StatusIsRead ==
    /\ last.op = "get_mining_status"
          => last.after = IF last.user \in DOMAIN last.before
                          THEN last.before
                          ELSE PutRow(last.before, last.user,
                                      [last_mine_timestamp |-> 0,
                                       ccc_balance |-> 0])
    /\ (last.op = "process_mining" /\ last.prev.count >= 1)
          => /\ last.res.success <=> last.read - last.prev.at >= D
             /\ last.res.balance
                    = reward * (last.prev.count
                                  + IF last.res.success THEN 1 ELSE 0)

\* C20 witness: a status call for a user who has mined before and whose
\* cooldown is over: the reward is due and the status call does not collect.
C20_Witness ==
    /\ last.op = "get_mining_status"
    /\ last.prev.count >= 1
    /\ last.res.can_mine
    /\ ccc_mining[last.user].ccc_balance = reward * last.prev.count
    /\ ccc_mining[last.user].last_mine_timestamp = last.prev.at

\* C16: a user's balance grows only in a step that removes a session of
\* that user, and then by exactly CCC_PER_SESSION: one credit per session.
C16_OneCreditPerSession ==
    [][ \A u \in 1..Len(users) :
            users'[u].ccc_tokens # users[u].ccc_tokens
            => /\ users'[u].ccc_tokens = users[u].ccc_tokens + CCC_PER_SESSION
               /\ Len(SessionsOf(mining_sessions', u))
                      < Len(SessionsOf(mining_sessions, u)) ]_vars

\* What the stores hold for user v: the mining record, the faucet claim, the
\* users row and the open sessions.
StateOfUser(v, mining, claims, tbl, sessions) ==
    [mining |-> IF v \in DOMAIN mining THEN <<mining[v]>> ELSE <<>>,
     claim |-> IF v \in DOMAIN claims THEN <<claims[v]>> ELSE <<>>,
     row |-> IF v \in 1..Len(tbl) THEN <<tbl[v]>> ELSE <<>>,
     sessions |-> SessionsOf(sessions, v)]

\* C18: a step of a request of user u leaves the balance, the cooldown
\* timestamp, the open sessions and the linked account of every other user
\* as they were, whatever other requests are under way.
C18_UsersIndependent ==
    [][ \A p \in Procs :
            proc'[p] # proc[p]
            => LET u == IF proc[p].pc \in {"idle", "register"}
                        THEN proc'[p].user
                        ELSE proc[p].user
               IN  \A v \in Users \ {u} :
                       StateOfUser(v, ccc_mining', faucet_claims', users',
                                   mining_sessions')
                       = StateOfUser(v, ccc_mining, faucet_claims, users,
                                     mining_sessions) ]_vars

\* C18 witness: a request of one user has stored its result while a request
\* of another user is between its read and its write.
C18_Witness ==
    \E p, q \in Procs :
        /\ proc[p].user # proc[q].user
        /\ proc[p].pc = "reply"
        /\ proc[p].kind \in {"mine", "claim", "start_mining"}
        /\ proc[q].pc \in {"write", "transfer", "complete", "start", "insert"}
        /\ proc[q].user \in Users

\* C21: every user has at most one row in mining_sessions; a start_mining
\* request that finds the user's session running (elapsed <
\* MINING_DURATION_SECONDS) changes neither the sessions nor the balances;
\* the INSERT of an accepted start_mining leaves the user exactly one
\* session, started now.
C21_SingleOpenSession ==
    /\ [](\A u \in Users : Len(SessionsOf(mining_sessions, u)) <= 1)
    /\ [][ \A p \in Procs :
              /\ ( /\ proc[p].kind = "start_mining"
                   /\ proc[p].pc = "session_select"
                   /\ proc'[p].pc = "reply" )
                 => /\ mining_sessions' = mining_sessions
                    /\ users' = users
              /\ ( proc[p].pc = "start" /\ proc'[p].pc = "reply" )
                 => SessionsOf(mining_sessions', proc[p].user)
                        = <<[user_id |-> proc[p].user, start_time |-> now]>>
       ]_vars

\* The balance of user id u in tbl, 0 without a row.
TokensOf(tbl, u) == IF u \in 1..Len(tbl) THEN tbl[u].ccc_tokens ELSE 0

\* The number of sessions of u that the request just handled removed: those
\* held before, plus the one it started, minus those held now.
SessionsRemoved(u) ==
    Len(SessionsOf(mining_sessions, u))
    + (IF last' # last /\ last'.op = "web_app_data"
          /\ last'.res.reply = "started" /\ last'.user = u THEN 1 ELSE 0)
    - Len(SessionsOf(mining_sessions', u))

\* C22: with requests handled one at a time, every step of a request (the
\* /start of a new user takes two) changes the balance of a user (a row of
\* users) by CCC_PER_SESSION times the number of the user's sessions it
\* removes, and it removes a session only when now -
\* start_time >= MINING_DURATION_SECONDS; a start_mining that only opens a
\* session changes no balance. Summed over a run, the balance is
\* CCC_PER_SESSION times the number of sessions started and later removed.
C22_RewardOnlyAfterWindow ==
    [][ (started' # started \/ last' # last)
        => \A u \in 1..Len(users') :
               /\ TokensOf(users', u) - TokensOf(users, u)
                      = CCC_PER_SESSION * SessionsRemoved(u)
               /\ SessionsRemoved(u) \in {0, 1}
               /\ SessionsRemoved(u) = 1
                      => now - FirstSession(mining_sessions, u)[1].start_time
                             >= Dm
      ]_vars

\* C22 witness: the user has started three sessions and two of them have
\* been removed, each after its window, the balance being 2 * CCC_PER_SESSION.
C22_Witness ==
    /\ last.op = "web_app_data"
    /\ last.res.reply = "started"
    /\ last.user \in 1..Len(users)
    /\ users[last.user].ccc_tokens = 2 * CCC_PER_SESSION
    /\ last.before.users[last.user].ccc_tokens = CCC_PER_SESSION
    /\ SessionsOf(mining_sessions, last.user)
           = <<[user_id |-> last.user, start_time |-> now]>>

\* C23: the cccTokens value that /start hands to the web app is the user's
\* stored balance at the end of the request, also when the request completed
\* an expired session.
C23_StatusReportsBalance ==
    (last.op = "launch_web_ui" /\ last.res.reply = "webapp")
    => last.res.cccTokens = last.after.users[last.user].ccc_tokens

\* The linked account, the balance and the open sessions of user id v.
AppStateOf(v, tbl, sessions) ==
    [row |-> IF v \in 1..Len(tbl)
             THEN <<[hedera_account_id |-> tbl[v].hedera_account_id,
                     ccc_tokens |-> tbl[v].ccc_tokens]>>
             ELSE <<>>,
     sessions |-> SessionsOf(sessions, v)]

\* C24: a web_app_data request sent by a registered user S leaves the linked
\* account, the open sessions and the balance of every other registered user
\* as they were, whatever the payload.
C24_OnlySenderAffected ==
    (last.op = "web_app_data" /\ UserIdOf(last.before.users, last.sender) # 0)
    => \A v \in (1..Len(last.before.users))
                   \ {UserIdOf(last.before.users, last.sender)} :
           AppStateOf(v, last.after.users, last.after.sessions)
           = AppStateOf(v, last.before.users, last.before.sessions)

====
